---- MODULE Spec2Model ----
(***************************************************************************)
(* A model of main.py of menu-maker: the two tools async_query_to_df and   *)
(* generate_menu_metrics_summary.                                          *)
(*                                                                         *)
(* async_query_to_df is modelled as one process per invocation, one step   *)
(* per await of its body (connect, execute, fetchall or commit, cursor     *)
(* close, and the close of the connection that `async with` performs on    *)
(* every way out of its block).  The store is the SQLite file              *)
(* menu_recommendation.db: the rows committed to it, and per open          *)
(* connection the rows written by that connection and not yet committed    *)
(* (sqlite3 opens a transaction before an INSERT and rolls it back when    *)
(* the connection is closed without a commit).                             *)
(*                                                                         *)
(* generate_menu_metrics_summary has no await in its body: it is one step, *)
(* computed by the operators that follow pandas 2.x on DataFrame(data),    *)
(* df[continuous_cols], describe(), median(), sum() and to_dict.           *)
(***************************************************************************)
EXTENDS Integers, Sequences, FiniteSets, TLC

VARIABLES
    pc,         \* per invocation of async_query_to_df: where it stands
    query,      \* per invocation: the statement it was called with
    conn,       \* per invocation: the connection it holds (0: none)
    cur,        \* per invocation: the cursor execute returned
    result,     \* per invocation: the value of `result`
    exc,        \* per invocation: the exception propagating out of it
    fetched,    \* per invocation: whether fetchall was called
    open,       \* the connections that are open
    lastConn,   \* the number of connections made so far
    committed,  \* the store: the rows committed to the table, in order
    pending,    \* per connection: rows written and not committed
    sumPc,      \* per invocation of generate_menu_metrics_summary: its position
    data,       \* per invocation of generate_menu_metrics_summary: its argument
    outcome     \* per invocation of generate_menu_metrics_summary: what it gave

qvars == <<pc, query, conn, cur, result, exc, fetched, open, lastConn,
           committed, pending>>
svars == <<sumPc, data, outcome>>
vars == <<pc, query, conn, cur, result, exc, fetched, open, lastConn,
          committed, pending, sumPc, data, outcome>>

-----------------------------------------------------------------------------
(* Bounds *)

\* The number of concurrent invocations of async_query_to_df.
NumCalls == 2

Calls == 1..NumCalls

\* The column names a statement's result may carry.
ColumnLists == { <<"x", "y">>, <<"x", "x">> }

-----------------------------------------------------------------------------
(* Python values *)

None == "None"

\* cur.description of a statement without a result is None.
NoDescription == [isNone |-> TRUE, items |-> <<>>]

\* The one record of the non-SELECT branch.
MESSAGE == "Query executed successfully."

Acknowledgement == << << <<"message", MESSAGE>> >> >>

-----------------------------------------------------------------------------
(* async_query_to_df: the statements and what the store answers *)

\* SELECT 'Query executed successfully.' AS message: one row, which holds
\* the text of the acknowledgement under the column name message.
SelectMessage == [kind |-> "select_message", cols |-> <<"message">>]

\* The statements an invocation may be called with.  A select reads the
\* table; an insert writes one row (the invocation's own number) and has no
\* result; an insert with a RETURNING clause writes one row and yields it.
Queries ==
    [kind : {"select", "insert_returning"}, cols : ColumnLists]
    \cup { [kind |-> "insert", cols |-> <<>>], SelectMessage }

\* The table before the first call: empty, or holding two rows in the
\* order the store will produce them.
InitialTables == { <<>>, <<8, 7>> }

NoQuery == [kind |-> "none", cols |-> <<>>]

IsMutation(q) == q.kind \in {"insert", "insert_returning"}

\* The row the store produces for stored value v under column list cols:
\* its j-th value is 10*v + j, so that a value tells its row and its column.
RowOf(v, cols) == [j \in 1..Len(cols) |-> 10 * v + j]

\* cursor.description: None for a statement without columns, else one
\* 7-tuple per column whose first item is the column's name.
Description(q) ==
    IF q.cols = <<>>
    THEN NoDescription
    ELSE [isNone |-> FALSE,
          items |-> [j \in 1..Len(q.cols) |->
                       <<q.cols[j], None, None, None, None, None, None>>]]

\* What the connection sees: the committed rows, then its own.
View(s) == committed \o pending[s]

\* The rows the cursor of invocation c will yield, in the store's order.
StoreRows(c, q) ==
    CASE q.kind = "select" ->
           [i \in 1..Len(View(conn[c])) |-> RowOf(View(conn[c])[i], q.cols)]
      [] q.kind = "insert_returning" -> << RowOf(c, q.cols) >>
      [] q.kind = "select_message" -> << <<MESSAGE>> >>
      [] OTHER -> <<>>

NoCursor == [description |-> NoDescription, rows |-> <<>>, closed |-> TRUE]

\* `if cur.description:` - the truth value of None or of a tuple.
HasResultAlways(description) == TRUE

HasResult(description) ==
    ~description.isNone /\ Len(description.items) > 0

-----------------------------------------------------------------------------
(* A dict, as the sequence of its (key, value) items in insertion order *)

KeysOf(d) == [i \in 1..Len(d) |-> d[i][1]]

HasKey(d, k) == \E i \in 1..Len(d) : d[i][1] = k

\* d[k] = v: a key already there keeps its place and takes the new value.
SetItem(d, k, v) ==
    IF HasKey(d, k)
    THEN [i \in 1..Len(d) |-> IF d[i][1] = k THEN <<k, v>> ELSE d[i]]
    ELSE Append(d, <<k, v>>)

Min(a, b) == IF a <= b THEN a ELSE b

\* zip(cols, r): pairs up to the shorter of the two.
Zip(cols, r) == [i \in 1..Min(Len(cols), Len(r)) |-> <<cols[i], r[i]>>]

RECURSIVE DictOf(_)
\* dict(pairs): the items are set one after the other.
DictOf(pairs) ==
    IF pairs = <<>>
    THEN <<>>
    ELSE LET n == Len(pairs)
         IN  SetItem(DictOf(SubSeq(pairs, 1, n - 1)), pairs[n][1], pairs[n][2])

\* cols = [d[0] for d in cur.description]
Cols(description) ==
    [j \in 1..Len(description.items) |-> description.items[j][1]]

\* result = [dict(zip(cols, r)) for r in rows]
Records(cols, rows) == [i \in 1..Len(rows) |-> DictOf(Zip(cols, rows[i]))]

-----------------------------------------------------------------------------
(* async_query_to_df: the steps of one invocation *)

\* The tool is called with a statement.
Call(c, q) ==
    /\ pc[c] = "idle"
    /\ pc' = [pc EXCEPT ![c] = "connect"]
    /\ query' = [query EXCEPT ![c] = q]
    /\ UNCHANGED <<conn, cur, result, exc, fetched, open, lastConn,
                   committed, pending, sumPc, data, outcome>>

\* A connection kept at module level and handed to every later call.
SharedConnection == IF lastConn = 0 THEN 1 ELSE lastConn

\* aiosqlite.connect makes a connection of its own for every call.
NewConnection == lastConn + 1

\* `async with aiosqlite.connect(DB_PATH) as conn`: entering the block.
\* When the store cannot be opened the exception leaves the call and no
\* connection was made.
Connect(c, ok) ==
    /\ pc[c] = "connect"
    /\ IF ok
       THEN /\ conn' = [conn EXCEPT ![c] = NewConnection]
            /\ open' = open \cup {NewConnection}
            /\ lastConn' = lastConn + 1
            /\ pc' = [pc EXCEPT ![c] = "execute"]
            /\ exc' = exc
       ELSE /\ pc' = [pc EXCEPT ![c] = "raised"]
            /\ exc' = [exc EXCEPT ![c] = "ConnectionError"]
            /\ UNCHANGED <<conn, open, lastConn>>
    /\ UNCHANGED <<query, cur, result, fetched, committed, pending,
                   sumPc, data, outcome>>

\* Another connection holds the write lock of the database file.
Locked(c) == \E s \in open \ {conn[c]} : pending[s] # <<>>

\* cur = await conn.execute(query).  The store may reject or fail any
\* statement (ok = FALSE), and it refuses a write while another connection
\* has uncommitted writes; the exception then leaves the block.
Execute(c, ok) ==
    /\ pc[c] = "execute"
    /\ IF ok /\ ~(IsMutation(query[c]) /\ Locked(c))
       THEN /\ cur' = [cur EXCEPT ![c] =
                         [description |-> Description(query[c]),
                          rows |-> StoreRows(c, query[c]),
                          closed |-> FALSE]]
            /\ pending' = IF IsMutation(query[c])
                          THEN [pending EXCEPT ![conn[c]] = Append(@, c)]
                          ELSE pending
            /\ pc' = [pc EXCEPT ![c] =
                        IF HasResult(Description(query[c]))
                        THEN "fetchall" ELSE "commit"]
            /\ exc' = exc
       ELSE /\ exc' = [exc EXCEPT ![c] = "QueryExecutionError"]
            /\ pc' = [pc EXCEPT ![c] = "exit"]
            /\ UNCHANGED <<cur, pending>>
    /\ UNCHANGED <<query, conn, result, fetched, open, lastConn, committed,
                   sumPc, data, outcome>>

\* rows = await cur.fetchall(); cols = ...; result = [dict(zip(cols, r)) ...]
FetchAll(c, ok) ==
    /\ pc[c] = "fetchall"
    /\ fetched' = [fetched EXCEPT ![c] = TRUE]
    /\ IF ok
       THEN /\ result' = [result EXCEPT ![c] =
                            Records(Cols(cur[c].description), cur[c].rows)]
            /\ pc' = [pc EXCEPT ![c] = "cur_close"]
            /\ exc' = exc
       ELSE /\ exc' = [exc EXCEPT ![c] = "QueryExecutionError"]
            /\ pc' = [pc EXCEPT ![c] = "exit"]
            /\ result' = result
    /\ UNCHANGED <<query, conn, cur, open, lastConn, committed, pending,
                   sumPc, data, outcome>>

\* await conn.commit(); result = [{"message": ...}]
Commit(c, ok) ==
    /\ pc[c] = "commit"
    /\ IF ok
       THEN /\ committed' = committed \o pending[conn[c]]
            /\ pending' = [pending EXCEPT ![conn[c]] = <<>>]
            /\ result' = [result EXCEPT ![c] = Acknowledgement]
            /\ pc' = [pc EXCEPT ![c] = "cur_close"]
            /\ exc' = exc
       ELSE /\ exc' = [exc EXCEPT ![c] = "QueryExecutionError"]
            /\ pc' = [pc EXCEPT ![c] = "exit"]
            /\ UNCHANGED <<committed, pending, result>>
    /\ UNCHANGED <<query, conn, cur, fetched, open, lastConn,
                   sumPc, data, outcome>>

\* await cur.close(); return result
CursorClose(c) ==
    /\ pc[c] = "cur_close"
    /\ cur' = [cur EXCEPT ![c].closed = TRUE]
    /\ pc' = [pc EXCEPT ![c] = "exit"]
    /\ UNCHANGED <<query, conn, result, exc, fetched, open, lastConn,
                   committed, pending, sumPc, data, outcome>>

\* A close that runs only when the block ended without an exception.
OpenAfterCloseOnReturn(c) == IF exc[c] = None THEN open \ {conn[c]} ELSE open

\* The connections left open once the block of invocation c is left.
OpenAfterExit(c) == open \ {conn[c]}

\* Leaving the `async with` block, by return or by exception: the
\* connection is closed, and what it wrote without committing is rolled
\* back.  The call then ends, with its result or with the exception.
Exit(c) ==
    /\ pc[c] = "exit"
    /\ open' = OpenAfterExit(c)
    /\ pending' = [pending EXCEPT ![conn[c]] = <<>>]
    /\ pc' = [pc EXCEPT ![c] = IF exc[c] = None THEN "returned" ELSE "raised"]
    /\ UNCHANGED <<query, conn, cur, result, exc, fetched, lastConn,
                   committed, sumPc, data, outcome>>

QInit(table) ==
    /\ pc = [c \in Calls |-> "idle"]
    /\ query = [c \in Calls |-> NoQuery]
    /\ conn = [c \in Calls |-> 0]
    /\ cur = [c \in Calls |-> NoCursor]
    /\ result = [c \in Calls |-> <<>>]
    /\ exc = [c \in Calls |-> None]
    /\ fetched = [c \in Calls |-> FALSE]
    /\ open = {}
    /\ lastConn = 0
    /\ committed = table
    /\ pending = [s \in Calls |-> <<>>]

QNext ==
    \E c \in Calls :
        \/ \E q \in Queries : Call(c, q)
        \/ \E ok \in BOOLEAN : Connect(c, ok)
        \/ \E ok \in BOOLEAN : Execute(c, ok)
        \/ \E ok \in BOOLEAN : FetchAll(c, ok)
        \/ \E ok \in BOOLEAN : Commit(c, ok)
        \/ CursorClose(c)
        \/ Exit(c)

-----------------------------------------------------------------------------
(* generate_menu_metrics_summary: the argument *)

continuous_cols ==
    <<"Price", "Avg_Rating", "Total_Orders", "Last_Week_Sales",
      "Last_Month_Sales">>

Fields == {continuous_cols[j] : j \in 1..Len(continuous_cols)}

\* The significand width of the floating-point format.  binary64 has 53
\* bits; the model rounds to Precision bits in the same way (to nearest,
\* ties to even), values being small enough that exponents never run out.
Precision == 5

RECURSIVE Pow2(_)
Pow2(k) == IF k = 0 THEN 1 ELSE 2 * Pow2(k - 1)

\* What a record holds under a field: nothing (the key is absent), None,
\* the integer n, the float n * 2^-Precision, or the string "abc".
Absent == [t |-> "absent", v |-> 0]
NoneCell == [t |-> "none", v |-> 0]
IntCell(n) == [t |-> "int", v |-> n]
FloatCell(n) == [t |-> "float", v |-> n]
Str == [t |-> "str", v |-> 0]

\* The longest argument.
MaxRecords == 3

\* The integers a field may hold, and the floats, in units of 2^-Precision.
Values == {1, 4}

Fractions == {5}

Cells ==
    {Absent, NoneCell, Str} \cup {IntCell(n) : n \in Values}
        \cup {FloatCell(n) : n \in Fractions}

\* The columns of an argument of n records.  Price takes every column of
\* cells; another field takes one of four columns: absent from every
\* record, None in every record, "abc" in every record, or 1, 2, .., n.
PriceColumns(n) == [1..n -> Cells]

OtherColumns(n) ==
    { [i \in 1..n |-> Absent], [i \in 1..n |-> NoneCell],
      [i \in 1..n |-> Str], [i \in 1..n |-> IntCell(i)] }

\* Avg_Rating and Total_Orders each take a column of their own; the two
\* sales fields take one column together.
OtherChoices(n) ==
    { [f \in Fields \ {"Price"} |->
          IF f = "Avg_Rating" THEN a ELSE IF f = "Total_Orders" THEN b ELSE c] :
      a \in OtherColumns(n), b \in OtherColumns(n), c \in OtherColumns(n) }

\* The argument of n records whose fields hold the chosen columns.
DataOf(n, p, o) ==
    [i \in 1..n |->
        [f \in Fields |-> IF f = "Price" THEN p[i] ELSE o[f][i]]]

-----------------------------------------------------------------------------
(* Numbers: a rational is <<numerator, denominator>> in lowest terms; a
   float is a rational with at most Precision significant bits *)

NaN == <<0, 0>>

Abs(n) == IF n < 0 THEN -n ELSE n

RECURSIVE GCD(_, _)
GCD(a, b) == IF b = 0 THEN a ELSE GCD(b, a % b)

Rat(n, d) == LET g == GCD(Abs(n), d) IN <<n \div g, d \div g>>

IsNaN(x) == x[2] = 0

Leq(x, y) == x[1] * y[2] <= y[1] * x[2]

Less(x, y) == x[1] * y[2] < y[1] * x[2]

RAdd(x, y) == Rat(x[1] * y[2] + y[1] * x[2], x[2] * y[2])

RSub(x, y) == Rat(x[1] * y[2] - y[1] * x[2], x[2] * y[2])

RMul(x, y) == Rat(x[1] * y[1], x[2] * y[2])

\* x / n for a positive integer n.
RDivInt(x, n) == Rat(x[1], x[2] * n)

\* The integer nearest to n/d (n >= 0), a tie going to the even one.
NearestEven(n, d) ==
    LET q == n \div d
        r == n % d
    IN  IF 2 * r < d THEN q
        ELSE IF 2 * r > d THEN q + 1
        ELSE q + (q % 2)

\* The float nearest to the positive rational x: scale x by a power of two
\* into [2^(Precision-1), 2^Precision), round to an integer, scale back.
RECURSIVE RoundPositive(_)
RoundPositive(x) ==
    IF x[1] >= x[2] * Pow2(Precision)
    THEN RMul(<<2, 1>>, RoundPositive(Rat(x[1], 2 * x[2])))
    ELSE IF x[1] < x[2] * Pow2(Precision - 1)
    THEN RDivInt(RoundPositive(Rat(2 * x[1], x[2])), 2)
    ELSE <<NearestEven(x[1], x[2]), 1>>

\* A rational in lowest terms whose numerator fits the significand and
\* whose denominator is a power of two up to 2^Precision is a float.
IsFloat(x) ==
    /\ Abs(x[1]) < Pow2(Precision)
    /\ Pow2(Precision) % x[2] = 0

\* Rounding of an exact result to the float format.
Round(x) ==
    IF IsFloat(x) THEN x
    ELSE IF x[1] < 0
    THEN LET r == RoundPositive(<<-x[1], x[2]>>) IN <<-r[1], r[2]>>
    ELSE RoundPositive(x)

\* The floating-point operations: the exact result, rounded.
FAdd(x, y) == Round(RAdd(x, y))

FSub(x, y) == Round(RSub(x, y))

FMul(x, y) == Round(RMul(x, y))

FDivInt(x, n) == Round(RDivInt(x, n))

\* The sum of a sequence of floats, added left to right.
RECURSIVE FSumFrom(_, _)
FSumFrom(acc, s) ==
    IF s = <<>> THEN acc ELSE FSumFrom(FAdd(acc, s[1]), Tail(s))

FSum(s) == FSumFrom(<<0, 1>>, s)

RECURSIVE SumSeq(_)
SumSeq(s) == IF s = <<>> THEN 0 ELSE s[1] + SumSeq(Tail(s))

-----------------------------------------------------------------------------
(* pandas: the frame and its columns *)

\* pd.DataFrame(data): a column for every key some record holds; a record
\* without the key holds NaN there.
DataFrame(d) ==
    [columns |-> {f \in Fields : \E i \in 1..Len(d) : d[i][f].t # "absent"},
     rows |-> d]

\* Every wanted column taken as present (what reindex would do).
MissingNever(df) == {}

\* The labels of continuous_cols that are not columns of the frame.
Missing(df) == Fields \ df.columns

\* df[continuous_cols][f]: the cells of column f.
Column(df, f) == [i \in 1..Len(df.rows) |-> df.rows[i][f]]

IsNumber(cell) == cell.t \in {"int", "float"}

HasStr(col) == \E i \in 1..Len(col) : col[i].t = "str"
HasNumber(col) == \E i \in 1..Len(col) : IsNumber(col[i])
HasNaN(col) == \E i \in 1..Len(col) : col[i].t = "absent"
AllInt(col) == \A i \in 1..Len(col) : col[i].t = "int"

\* The dtype pandas infers for a column built from records.
Dtype(col) ==
    IF HasStr(col) THEN "object"
    ELSE IF HasNumber(col) THEN (IF AllInt(col) THEN "int64" ELSE "float64")
    ELSE IF HasNaN(col) \/ col = <<>> THEN "float64"
    ELSE "object"

IsNumeric(col) == Dtype(col) \in {"int64", "float64"}

\* The number a cell holds, as a float.
ValueOf(cell) ==
    IF cell.t = "int" THEN <<cell.v, 1>> ELSE Rat(cell.v, Pow2(Precision))

\* The values of a column that are not missing, in record order.
Present(col) ==
    LET numbers == SelectSeq(col, IsNumber)
    IN  [i \in 1..Len(numbers) |-> ValueOf(numbers[i])]

Sorted(s) == SortSeq(s, Less)

-----------------------------------------------------------------------------
(* pandas: the statistics of one column *)

\* gamma = g/4 as a float.
Gamma(g) == Rat(g, 4)

\* numpy's _lerp at gamma = g/4, in floating point: a + (b-a)*gamma below
\* one half, and b - (b-a)*(1-gamma) from one half on.
Lerp(a, b, g) ==
    LET diff_b_a == FSub(b, a)
    IN  IF 2 * g < 4
        THEN FAdd(a, FMul(diff_b_a, Gamma(g)))
        ELSE FSub(b, FMul(diff_b_a, FSub(<<1, 1>>, Gamma(g))))

\* Series.quantile(k/4) of the sorted values s (linear interpolation): the
\* virtual index k/4*(n-1), its floor, the next index clipped to the last.
Quantile(s, k) ==
    IF s = <<>> THEN NaN
    ELSE LET n == Len(s)
             r == k * (n - 1)
             i == r \div 4
         IN  Lerp(s[i + 1], s[Min(i + 2, n)], r % 4)

\* nanmedian of the sorted values s, in floating point: the middle one, or
\* the mean of the two middle ones (their sum, halved).
Median(s) ==
    IF s = <<>> THEN NaN
    ELSE LET n == Len(s)
         IN  IF n % 2 = 1
             THEN s[(n + 1) \div 2]
             ELSE FDivInt(FAdd(s[n \div 2], s[n \div 2 + 1]), 2)

\* sum() of the values s: exact on an int64 column, floating point else.
Sum(s, dtype) ==
    IF s = <<>> THEN <<0, 1>>
    ELSE IF dtype = "int64" THEN <<SumSeq([i \in 1..Len(s) |-> s[i][1]]), 1>>
    ELSE FSum(s)

Mean(s) == IF s = <<>> THEN NaN ELSE FDivInt(FSum(s), Len(s))

\* The sample variance (ddof = 1) as nanvar computes it: the squared
\* distances from the mean, summed, over count - 1.  Series.std is its
\* square root, NaN for fewer than two values; the summary carries the
\* variance under "std".
Variance(s) ==
    LET n == Len(s)
        avg == Mean(s)
        sqr == [i \in 1..n |-> LET d == FSub(avg, s[i]) IN FMul(d, d)]
    IN  IF n < 2 THEN NaN ELSE FDivInt(FSum(sqr), n - 1)

\* describe() of a numeric column: count, mean, std, min, 25%, 50%, 75%,
\* max of the values that are not missing.
DescribeNumeric(col) ==
    LET s == Sorted(Present(col))
    IN  ("count" :> Len(s)) @@ ("mean" :> Mean(s)) @@ ("std" :> Variance(s))
        @@ ("min" :> IF s = <<>> THEN NaN ELSE s[1])
        @@ ("25%" :> Quantile(s, 1)) @@ ("50%" :> Quantile(s, 2))
        @@ ("75%" :> Quantile(s, 3))
        @@ ("max" :> IF s = <<>> THEN NaN ELSE s[Len(s)])

\* describe() of an object column without a single value: count, unique,
\* top, freq.
DescribeObject(col) ==
    ("count" :> Len(Present(col))) @@ ("unique" :> 0)
    @@ ("top" :> NaN) @@ ("freq" :> NaN)

\* The columns describe() keeps: the numeric ones when there is one, else
\* all of them.
Described(df) ==
    LET numeric == SelectSeq(continuous_cols,
                             LAMBDA f : IsNumeric(Column(df, f)))
    IN  IF numeric # <<>> THEN numeric ELSE continuous_cols

\* df_numeric.describe().T: the row of described column f.
Describe(df, f) ==
    IF IsNumeric(Column(df, f))
    THEN DescribeNumeric(Column(df, f))
    ELSE DescribeObject(Column(df, f))

\* df_numeric.median() and df_numeric.sum() raise TypeError on a column
\* that holds a string.
Unsummable(df) == {f \in Fields : HasStr(Column(df, f))}

NoError == [kind |-> "none", stage |-> "none", fields |-> {}, indexes |-> {}]

\* An exception: its type, the statement that raised it, and the fields
\* and record indexes its message names.
Error(kind, stage, fields) ==
    [kind |-> kind, stage |-> stage, fields |-> fields, indexes |-> {}]

Raised(e) == [status |-> "raised", summary |-> <<>>, error |-> e]

Returned(recs) == [status |-> "returned", summary |-> recs, error |-> NoError]

\* summary.reset_index().rename(...).to_dict(orient="records"): one record
\* per row of the summary, with median and sum aligned to its index.
SummaryList(df) ==
    LET described == Described(df)
    IN  [j \in 1..Len(described) |->
            LET f == described[j]
                s == Sorted(Present(Column(df, f)))
            IN  ("metric" :> f) @@ Describe(df, f)
                @@ ("median" :> Median(s))
                @@ ("sum" :> Sum(s, Dtype(Column(df, f))))]

\* The body of the tool, statement by statement.
generate_menu_metrics_summary(d) ==
    LET df == DataFrame(d)
    IN  IF Missing(df) # {}
        THEN Raised(Error("KeyError", "df[continuous_cols]", Missing(df)))
        ELSE IF Unsummable(df) # {}
        THEN Raised(Error("TypeError", "median", {}))
        ELSE Returned(SummaryList(df))

\* One invocation of the tool: its body has no await, it is one step.
Summarize(d) ==
    /\ sumPc = "idle"
    /\ data' = d
    /\ LET out == generate_menu_metrics_summary(d)
       IN  outcome' = out /\ sumPc' = out.status
    /\ UNCHANGED qvars

SInit ==
    /\ sumPc = "idle"
    /\ data = <<>>
    /\ outcome = Returned(<<>>)

-----------------------------------------------------------------------------
(* Specifications *)

\* async_query_to_df: concurrent invocations over every statement of
\* Queries, on a table that is empty or holds two rows.
Init == (\E table \in InitialTables : QInit(table)) /\ SInit

Next == QNext

Spec == Init /\ [][Next]_vars

\* generate_menu_metrics_summary: one call, over every argument of up to
\* MaxRecords records.
SumInit == QInit(<<>>) /\ SInit

SumNext ==
    /\ sumPc = "idle"
    /\ \E n \in 0..MaxRecords :
          \E p \in PriceColumns(n), o \in OtherChoices(n) :
              Summarize(DataOf(n, p, o))

SumSpec == SumInit /\ [][SumNext]_vars

\* Both tools, concurrently: invocations of async_query_to_df reading and
\* writing the table, and one of generate_menu_metrics_summary.
ConcQueries ==
    { [kind |-> "select", cols |-> <<"x", "y">>],
      [kind |-> "insert", cols |-> <<>>] }

ConcInputs ==
    { <<>>, << [f \in Fields |-> IntCell(1)] >> }

ConcNext ==
    \/ \E c \in Calls :
        \/ \E q \in ConcQueries : Call(c, q)
        \/ \E ok \in BOOLEAN : Connect(c, ok)
        \/ \E ok \in BOOLEAN : Execute(c, ok)
        \/ \E ok \in BOOLEAN : FetchAll(c, ok)
        \/ \E ok \in BOOLEAN : Commit(c, ok)
        \/ CursorClose(c)
        \/ Exit(c)
    \/ \E d \in ConcInputs : Summarize(d)

ConcSpec == SumInit /\ [][ConcNext]_vars

-----------------------------------------------------------------------------
(* Claims about async_query_to_df *)

\* The positions inside the `async with` block, where the call holds a
\* connection it has opened and not yet closed.
InBlock == {"execute", "fetchall", "commit", "cur_close", "exit"}

Ended(c) == pc[c] \in {"returned", "raised"}

\* C1: once an invocation of async_query_to_df has ended, by returning rows,
\* an empty result or the acknowledgement, or by an exception of connect,
\* execute, fetchall or commit, the connection it opened is closed; and
\* every open connection is held by an invocation still inside its block.
C1_SessionClosedOnEveryExit ==
    /\ \A c \in Calls : Ended(c) => conn[c] \notin open
    /\ \A s \in open : \E c \in Calls : conn[c] = s /\ pc[c] \in InBlock

\* One invocation has returned rows and another has failed after it had
\* opened its connection.
C1_Witness ==
    \E c, d \in Calls :
        /\ pc[c] = "returned" /\ result[c] # <<>> /\ conn[c] # 0
        /\ pc[d] = "raised" /\ conn[d] # 0

\* C2: when an invocation called with a data-mutating statement returns,
\* the row it wrote is committed to the store, also when the statement
\* yields columns (INSERT .. RETURNING).
C2_MutationCommittedBeforeReturn ==
    \A c \in Calls :
        (pc[c] = "returned" /\ IsMutation(query[c]))
            => \E i \in 1..Len(committed) : committed[i] = c

\* The records a result may hold when built from the rows of cursor cu:
\* as many as the rows, every item a column name with a value of its row.
BuiltFromRows(res, cu) ==
    /\ Len(res) = Len(cu.rows)
    /\ \A i \in 1..Len(res) :
         \A k \in 1..Len(res[i]) :
            \E j \in 1..Len(cu.rows[i]) :
               res[i][k] = <<cu.description.items[j][1], cu.rows[i][j]>>

AcknowledgementValueOnlyWithoutDescription ==
    \A c \in Calls :
        (pc[c] = "returned" /\ Len(result[c]) = 1
            /\ KeysOf(result[c][1]) = <<"message">>
            /\ result[c][1][1][2] = MESSAGE)
        => cur[c].description.isNone

C4_KeysAreColumnList ==
    \A c \in Calls :
        (pc[c] = "returned" /\ ~cur[c].description.isNone) =>
            /\ Len(result[c]) = Len(cur[c].rows)
            /\ \A i \in 1..Len(result[c]) :
                  KeysOf(result[c][i]) = query[c].cols

RECURSIVE FirstOccurrences(_)
\* The names of a column list, each once, in the order of first occurrence.
FirstOccurrences(cols) ==
    IF cols = <<>>
    THEN <<>>
    ELSE LET n == Len(cols)
             before == FirstOccurrences(SubSeq(cols, 1, n - 1))
         IN  IF \E j \in 1..(n - 1) : cols[j] = cols[n]
             THEN before
             ELSE Append(before, cols[n])

\* The last column of the list that carries name k.
LastColumn(cols, k) ==
    CHOOSE j \in 1..Len(cols) :
        cols[j] = k /\ \A m \in (j + 1)..Len(cols) : cols[m] # k

\* What the records do hold: for a statement with a description, the i-th
\* returned record belongs to the i-th row the store produced; its key
\* sequence is the column-name list with the repeats of a name dropped
\* (the list itself when no name repeats), and each key holds the row's
\* value in the last column of that name.
KeysAreColumnsWithoutRepeats ==
    \A c \in Calls :
        (pc[c] = "returned" /\ ~cur[c].description.isNone) =>
            /\ Len(result[c]) = Len(cur[c].rows)
            /\ \A i \in 1..Len(result[c]) :
                  LET rec == result[c][i]
                  IN  /\ KeysOf(rec) = FirstOccurrences(query[c].cols)
                      /\ \A k \in 1..Len(rec) :
                            rec[k][2] =
                              cur[c].rows[i][LastColumn(query[c].cols, rec[k][1])]

\* A select with a repeated column name has returned the records of two
\* rows, and one with distinct names has returned records as well.
RepeatedColumnsReturned ==
    \E c, d \in Calls :
        /\ pc[c] = "returned" /\ query[c].cols = <<"x", "x">>
        /\ Len(result[c]) >= 2
        /\ pc[d] = "returned" /\ query[d].cols = <<"x", "y">>
        /\ Len(result[d]) >= 2

\* C10: under every interleaving, no two invocations hold the same
\* connection, an invocation inside its block finds its connection open
\* whatever the others have closed, the uncommitted rows of a connection
\* are those of the invocation that opened it, and what the summarizer
\* gave is the function of its own argument.
C10_CallsAreIsolated ==
    /\ \A c, d \in Calls :
         (c # d /\ conn[c] # 0 /\ conn[d] # 0) => conn[c] # conn[d]
    /\ \A c \in Calls : pc[c] \in InBlock => conn[c] \in open
    /\ \A c \in Calls :
         conn[c] # 0 => \A i \in 1..Len(pending[conn[c]]) :
                            pending[conn[c]][i] = c
    /\ \A s \in Calls :
         pending[s] # <<>> => \E c \in Calls : conn[c] = s /\ pc[c] \in InBlock
    /\ sumPc # "idle" => outcome = generate_menu_metrics_summary(data)

\* One invocation is inside its block with uncommitted writes while
\* another has closed its connection and the summarizer has run.
C10_Witness ==
    \E c, d \in Calls :
        /\ c # d
        /\ pc[c] \in InBlock /\ pending[conn[c]] # <<>>
        /\ pc[d] = "returned" /\ conn[d] # 0
        /\ sumPc = "returned"

-----------------------------------------------------------------------------
(* Claims about generate_menu_metrics_summary *)

Statistics ==
    {"count", "mean", "std", "min", "25%", "50%", "75%", "max", "median",
     "sum"}

Called == sumPc # "idle"

\* C5: called with the empty list, the tool returns five records, one per
\* field, with count 0 and NaN for every other statistic.
C5_EmptyInputGivesFiveRecords ==
    (Called /\ data = <<>>) =>
        /\ outcome.status = "returned"
        /\ Len(outcome.summary) = Len(continuous_cols)
        /\ \A j \in 1..Len(outcome.summary) :
              /\ outcome.summary[j]["metric"] = continuous_cols[j]
              /\ outcome.summary[j]["count"] = 0
              /\ \A k \in Statistics \ {"count"} :
                    IsNaN(outcome.summary[j][k])

\* The fields that no record of the argument holds.
AbsentEverywhere(d) ==
    {f \in Fields : \A i \in 1..Len(d) : d[i][f].t = "absent"}

\* C6: called with a non-empty list in which a fixed field is absent from
\* every record, the tool raises KeyError (the missing-field error) from
\* df[continuous_cols], before describe(), naming the absent fields, and
\* gives no summary record.
C6_MissingFieldFailsFast ==
    (Called /\ data # <<>> /\ AbsentEverywhere(data) # {}) =>
        /\ outcome.status = "raised"
        /\ outcome.error.kind = "KeyError"
        /\ outcome.error.stage = "df[continuous_cols]"
        /\ outcome.error.fields = AbsentEverywhere(data)
        /\ outcome.summary = <<>>

\* A non-empty argument without Price, its other fields numeric, has
\* raised KeyError.
C6_Witness ==
    /\ sumPc = "raised" /\ Len(data) >= 2
    /\ AbsentEverywhere(data) = {"Price"}
    /\ \A f \in Fields \ {"Price"} : \A i \in 1..Len(data) : data[i][f].t = "int"
    /\ outcome.error.kind = "KeyError"

\* C7: called with a list in which a record holds a string in a fixed
\* field, the tool raises a type error that names that field and the
\* index of that record.
C7_NonNumericNamed ==
    (Called /\ \E i \in 1..Len(data), f \in Fields : data[i][f].t = "str") =>
        /\ outcome.status = "raised"
        /\ outcome.error.kind = "TypeError"
        /\ \E i \in 1..Len(data), f \in Fields :
              /\ data[i][f].t = "str"
              /\ f \in outcome.error.fields
              /\ i \in outcome.error.indexes

\* C8: every returned summary holds five records, for Price, Avg_Rating,
\* Total_Orders, Last_Week_Sales, Last_Month_Sales in that order, each
\* with all ten statistics.
C8_FiveFullRecords ==
    (Called /\ outcome.status = "returned") =>
        /\ Len(outcome.summary) = Len(continuous_cols)
        /\ \A j \in 1..Len(outcome.summary) :
              /\ outcome.summary[j]["metric"] = continuous_cols[j]
              /\ Statistics \subseteq DOMAIN outcome.summary[j]

\* The values of field f in argument d that are not missing, ascending.
SortedValues(d, f) ==
    Sorted(Present([i \in 1..Len(d) |-> d[i][f]]))

\* The value at rank k/4*(n-1) of the ascending values s, interpolated
\* linearly between the two values that bracket the rank: the exact
\* result, rounded once to the float format.
Interpolated(s, k) ==
    LET n == Len(s)
        lo == (k * (n - 1)) \div 4
        g == (k * (n - 1)) % 4
        a == s[lo + 1]
        b == s[Min(lo + 2, n)]
    IN  Round(RAdd(RMul(Rat(4 - g, 4), a), RMul(Rat(g, 4), b)))

\* C9: in every returned summary, the count of a record is the number of
\* values of its field that are not missing; and when the count is at
\* least 1, min <= 25% <= 50% <= 75% <= max, 50% equals median, and each
\* percentile is the linear interpolation at rank p*(n-1).
C9_PercentilesInterpolated ==
    (Called /\ outcome.status = "returned") =>
        \A j \in 1..Len(outcome.summary) :
            LET r == outcome.summary[j]
                s == SortedValues(data, r["metric"])
            IN  /\ r["count"] = Len(s)
                /\ r["count"] >= 1 =>
                      /\ Leq(r["min"], r["25%"]) /\ Leq(r["25%"], r["50%"])
                      /\ Leq(r["50%"], r["75%"]) /\ Leq(r["75%"], r["max"])
                      /\ r["50%"] = r["median"]
                      /\ r["min"] = s[1]
                      /\ r["max"] = s[Len(s)]
                      /\ r["25%"] = Interpolated(s, 1)
                      /\ r["50%"] = Interpolated(s, 2)
                      /\ r["75%"] = Interpolated(s, 3)

\* The part of C9 that does not depend on rounding: the count, and the
\* order of min, 25%, 50%, 75%, max.
PercentilesOrdered ==
    (Called /\ outcome.status = "returned") =>
        \A j \in 1..Len(outcome.summary) :
            LET r == outcome.summary[j]
                s == SortedValues(data, r["metric"])
            IN  /\ r["count"] = Len(s)
                /\ r["count"] >= 1 =>
                      /\ Leq(r["min"], r["25%"]) /\ Leq(r["25%"], r["50%"])
                      /\ Leq(r["50%"], r["75%"]) /\ Leq(r["75%"], r["max"])

\* The 50% percentile and the median of a column of integers agree.
MedianAgreesOnIntegers ==
    (Called /\ outcome.status = "returned") =>
        \A j \in 1..Len(outcome.summary) :
            LET r == outcome.summary[j]
                f == r["metric"]
            IN  (r["count"] >= 1
                    /\ \A i \in 1..Len(data) : data[i][f].t # "float")
                => r["50%"] = r["median"]

\* A returned summary whose Price record has a 50% percentile that is not
\* its median.
MedianDiffers ==
    /\ sumPc = "returned" /\ Len(outcome.summary) >= 1
    /\ LET r == outcome.summary[1]
       IN  /\ r["metric"] = "Price" /\ r["count"] >= 2
           /\ r["50%"] # r["median"]

====
